---- MODULE Spec2Model ----
(***************************************************************************)
(* Model of MassEstimate.py: the prediction extractor                      *)
(* (iter_prediction_objects), the mass estimator (shoelace_area_px2,       *)
(* prediction_to_row) and the CSV report (json_predictions_to_csv).        *)
(*                                                                         *)
(* A Python value is a record of one fixed shape                           *)
(*     [t, s, items, neg, mag, exp, sp]                                    *)
(* t is the Python type: "null" (None), "bool", "int", "float", "str",     *)
(* "list" or "dict", or "raised" for the outcome of a call that raised an  *)
(* exception.  s is the text of a str, one character per element; the      *)
(* element "\\ud800" stands for the one code point U+D800, a surrogate     *)
(* that has no partner, which json.loads accepts in a text.                *)
(* items are the entries [k, v] of a dict in insertion order (k the key,   *)
(* as a text) or of a list (k empty).  A number is                         *)
(*     (-1)^neg * mag * 2^exp                                              *)
(* mag is a natural number of any size, written as its digits in base      *)
(* 2^15, lowest first, without leading zeros (0 is the empty sequence).    *)
(* An int has exp = 0; a bool is the int 0 or 1; a finite float has mag    *)
(* odd or zero, and sp = "inf" or "nan" marks the floats that are not      *)
(* finite.                                                                 *)
(***************************************************************************)
EXTENDS Integers, Sequences, FiniteSets, TLC

VARIABLES pc, obj, result, pred, row, points, area,
          input, write_totals_row, data, rows, file, idx

vars == <<pc, obj, result, pred, row, points, area,
          input, write_totals_row, data, rows, file, idx>>

(***************************************************************************)
(* Bounds of the checked inputs.                                           *)
(***************************************************************************)
MaxPreds == 2
MaxOuts == 2
MaxPts == 4
MaxRows == 3

(***************************************************************************)
(* Natural numbers of any size.                                            *)
(***************************************************************************)
Base == 2^15

Max(a, b) == IF a >= b THEN a ELSE b

Min(a, b) == IF a <= b THEN a ELSE b

RECURSIVE Pow2(_)
Pow2(k) == IF k = 0 THEN 1 ELSE 2 * Pow2(k - 1)

\* the digits of a machine integer n >= 0
NatFromInt(n) ==
    LET a == <<n % Base, (n \div Base) % Base, n \div (Base * Base)>>
    IN  SubSeq(a, 1, IF a[3] # 0 THEN 3 ELSE IF a[2] # 0 THEN 2
                     ELSE IF a[1] # 0 THEN 1 ELSE 0)

\* without leading zeros
NatTrim(a) ==
    LET nz == {i \in 1..Len(a) : a[i] # 0}
    IN  IF nz = {} THEN <<>>
        ELSE SubSeq(a, 1, CHOOSE i \in nz : \A j \in nz : j <= i)

Digit(a, i) == IF i >= 1 /\ i <= Len(a) THEN a[i] ELSE 0

\* a + b carries into digit i
NatCarry(a, b, i) ==
    \E j \in 1..(i - 1) :
        /\ Digit(a, j) + Digit(b, j) >= Base
        /\ \A k \in (j + 1)..(i - 1) : Digit(a, k) + Digit(b, k) = Base - 1

NatAdd(a, b) ==
    NatTrim([i \in 1..(Max(Len(a), Len(b)) + 1) |->
        (Digit(a, i) + Digit(b, i) + (IF NatCarry(a, b, i) THEN 1 ELSE 0))
        % Base])

\* -1, 0, 1 as a < b, a = b, a > b
NatCmp(a, b) ==
    LET d == {i \in 1..Max(Len(a), Len(b)) : Digit(a, i) # Digit(b, i)}
    IN  IF d = {} THEN 0
        ELSE LET i == CHOOSE i \in d : \A j \in d : j <= i
             IN  IF Digit(a, i) < Digit(b, i) THEN 0 - 1 ELSE 1

\* a - b borrows from digit i
NatBorrow(a, b, i) ==
    \E j \in 1..(i - 1) :
        /\ Digit(a, j) < Digit(b, j)
        /\ \A k \in (j + 1)..(i - 1) : Digit(a, k) = Digit(b, k)

\* a - b, for a >= b
NatSub(a, b) ==
    NatTrim([i \in 1..Len(a) |->
        (a[i] - Digit(b, i) - (IF NatBorrow(a, b, i) THEN 1 ELSE 0) + Base)
        % Base])

\* a * m, for one digit m
NatMulDigit(a, m) ==
    NatAdd([i \in 1..Len(a) |-> (a[i] * m) % Base],
           <<0>> \o [i \in 1..Len(a) |-> (a[i] * m) \div Base])

RECURSIVE NatMul(_, _)
NatMul(a, b) ==
    IF Len(a) = 0 \/ Len(b) = 0 THEN <<>>
    ELSE IF Len(b) = 1 THEN NatMulDigit(a, b[1])
    ELSE LET h == Len(b) \div 2
         IN  NatAdd(NatMul(a, SubSeq(b, 1, h)),
                    [i \in 1..h |-> 0] \o NatMul(a, SubSeq(b, h + 1, Len(b))))

\* a * 2^k
NatShl(a, k) ==
    IF Len(a) = 0 THEN <<>>
    ELSE [i \in 1..(k \div 15) |-> 0] \o NatMulDigit(a, Pow2(k % 15))

\* a \div 2^k
NatShr(a, k) ==
    LET q == k \div 15
        r == k % 15
        n == Len(a) - q
    IN  IF n <= 0 THEN <<>>
        ELSE NatTrim([i \in 1..n |->
                 (a[q + i] \div Pow2(r))
                 + (Digit(a, q + i + 1) % Pow2(r)) * Pow2(15 - r)])

RECURSIVE DigitBits(_)
DigitBits(d) == IF d = 0 THEN 0 ELSE 1 + DigitBits(d \div 2)

\* the number of binary digits of a
NatBitLen(a) ==
    IF Len(a) = 0 THEN 0 ELSE 15 * (Len(a) - 1) + DigitBits(a[Len(a)])

\* binary digit k of a, counted from 0
NatBit(a, k) == (Digit(a, (k \div 15) + 1) \div Pow2(k % 15)) % 2

\* a is a multiple of 2^k
NatLowZero(a, k) ==
    /\ \A i \in 1..Min(k \div 15, Len(a)) : a[i] = 0
    /\ Digit(a, (k \div 15) + 1) % Pow2(k % 15) = 0

RECURSIVE DigitTrailingZeros(_)
DigitTrailingZeros(d) == IF d % 2 = 1 THEN 0 ELSE 1 + DigitTrailingZeros(d \div 2)

\* the largest k with a a multiple of 2^k, for a # 0
NatTrailingZeros(a) ==
    LET i == CHOOSE i \in 1..Len(a) : a[i] # 0 /\ \A j \in 1..(i - 1) : a[j] = 0
    IN  15 * (i - 1) + DigitTrailingZeros(a[i])

(***************************************************************************)
(* Python values as json.loads returns them and as the code computes them. *)
(***************************************************************************)
None ==
    [t |-> "null", s |-> <<>>, items |-> <<>>,
     neg |-> FALSE, mag |-> <<>>, exp |-> 0, sp |-> ""]

Str(x) ==
    [t |-> "str", s |-> x, items |-> <<>>,
     neg |-> FALSE, mag |-> <<>>, exp |-> 0, sp |-> ""]

KV(key, val) == [k |-> key, v |-> val]

List(seq) ==
    [t |-> "list", s |-> <<>>,
     items |-> [i \in 1..Len(seq) |-> KV(<<>>, seq[i])],
     neg |-> FALSE, mag |-> <<>>, exp |-> 0, sp |-> ""]

Dict(kvs) ==
    [t |-> "dict", s |-> <<>>, items |-> kvs,
     neg |-> FALSE, mag |-> <<>>, exp |-> 0, sp |-> ""]

\* True and False
Bool(b) ==
    [t |-> "bool", s |-> <<>>, items |-> <<>>,
     neg |-> FALSE, mag |-> IF b THEN <<1>> ELSE <<>>, exp |-> 0, sp |-> ""]

\* the int (-1)^n * m
IntOf(n, m) ==
    [t |-> "int", s |-> <<>>, items |-> <<>>,
     neg |-> n /\ Len(m) > 0, mag |-> m, exp |-> 0, sp |-> ""]

\* the int n, for a machine integer n
IntV(n) == IF n < 0 THEN IntOf(TRUE, NatFromInt(0 - n)) ELSE IntOf(FALSE, NatFromInt(n))

\* the int 2^k
IntPow2(k) == IntOf(FALSE, NatShl(<<1>>, k))

\* the finite float (-1)^n * m * 2^e of an m # 0 with z trailing zero
\* binary digits
FloatOdd(n, m, e, z) ==
    [t |-> "float", s |-> <<>>, items |-> <<>>,
     neg |-> n, mag |-> NatShr(m, z), exp |-> e + z, sp |-> ""]
\* the finite float (-1)^n * m * 2^e, for a value that is a double
Float(n, m, e) ==
    IF Len(m) = 0
    THEN [t |-> "float", s |-> <<>>, items |-> <<>>,
          neg |-> n, mag |-> <<>>, exp |-> 0, sp |-> ""]
    ELSE FloatOdd(n, m, e, NatTrailingZeros(m))
\* float("inf"), float("-inf")
Inf(n) ==
    [t |-> "float", s |-> <<>>, items |-> <<>>,
     neg |-> n, mag |-> <<>>, exp |-> 0, sp |-> "inf"]

\* float("nan")
NaN ==
    [t |-> "float", s |-> <<>>, items |-> <<>>,
     neg |-> FALSE, mag |-> <<>>, exp |-> 0, sp |-> "nan"]

\* the float n, for a small machine integer n
FloatV(n) ==
    IF n < 0 THEN Float(TRUE, NatFromInt(0 - n), 0)
    ELSE Float(FALSE, NatFromInt(n), 0)

\* isinstance(v, dict), isinstance(v, list)
IsDict(v) == v.t = "dict"

IsList(v) == v.t = "list"

\* v can be multiplied and subtracted: int, bool (an int) or float
IsNumber(v) == v.t \in {"int", "bool", "float"}

IsFloat(v) == v.t = "float"

\* key in d
Has(d, key) == \E i \in 1..Len(d.items) : d.items[i].k = key

\* d[key], for a key the dict has
Get(d, key) ==
    d.items[CHOOSE i \in 1..Len(d.items) : d.items[i].k = key].v

\* d.get(key): None when the key is missing
DictGet(d, key) == IF Has(d, key) THEN Get(d, key) ELSE None

\* the elements of a list, the values of a dict, in order
Elems(v) == [i \in 1..Len(v.items) |-> v.items[i].v]

\* the keys of a dict in insertion order, as str values
Keys(v) == [i \in 1..Len(v.items) |-> Str(v.items[i].k)]

\* the one-character strings of a text
Chars(x) == [i \in 1..Len(x) |-> Str(<<x[i]>>)]

SeqsUpTo(S, n) == UNION {[1..m -> S] : m \in 0..n}

(***************************************************************************)
(* The texts of the code and of the checked inputs.                        *)
(***************************************************************************)
K_predictions == <<"p", "r", "e", "d", "i", "c", "t", "i", "o", "n", "s">>

K_outputs == <<"o", "u", "t", "p", "u", "t", "s">>

K_points == <<"p", "o", "i", "n", "t", "s">>

K_x == <<"x">>

K_y == <<"y">>

K_detection_id == <<"d", "e", "t", "e", "c", "t", "i", "o", "n", "_", "i", "d">>

K_class == <<"c", "l", "a", "s", "s">>

K_class_id == <<"c", "l", "a", "s", "s", "_", "i", "d">>

K_confidence == <<"c", "o", "n", "f", "i", "d", "e", "n", "c", "e">>

K_width == <<"w", "i", "d", "t", "h">>

K_height == <<"h", "e", "i", "g", "h", "t">>

K_bbox_x == <<"b", "b", "o", "x", "_", "x">>

K_bbox_y == <<"b", "b", "o", "x", "_", "y">>

K_bbox_width == <<"b", "b", "o", "x", "_", "w", "i", "d", "t", "h">>

K_bbox_height == <<"b", "b", "o", "x", "_", "h", "e", "i", "g", "h", "t">>

K_num_points == <<"n", "u", "m", "_", "p", "o", "i", "n", "t", "s">>

K_area_px2 == <<"a", "r", "e", "a", "_", "p", "x", "2">>

K_mass_low_kg == <<"m", "a", "s", "s", "_", "l", "o", "w", "_", "k", "g">>

K_mass_mod_kg == <<"m", "a", "s", "s", "_", "m", "o", "d", "_", "k", "g">>

K_mass_high_kg == <<"m", "a", "s", "s", "_", "h", "i", "g", "h", "_", "k", "g">>

K_TOTAL == <<"T", "O", "T", "A", "L">>

K_a == <<"a">>

K_b == <<"b">>

K_ab == <<"a", "b">>


K_net == <<"n", "e", "t">>

K_i == <<"i">>

K_image == <<"i", "m", "a", "g", "e">>

K_foo == <<"f", "o", "o">>


K_k == <<"k">>


(***************************************************************************)
(* Arithmetic.  A float is an IEEE double: 53 binary digits, the top       *)
(* binary digit below 2^1024, the lowest at or above 2^-1074, results      *)
(* rounded to the nearest double, ties to the even one.  An operation      *)
(* that raises (TypeError, KeyError, OverflowError) has the result Raised, *)
(* and an operation on Raised is Raised: nothing is computed after an      *)
(* exception.                                                              *)
(***************************************************************************)
Raised ==
    [t |-> "raised", s |-> <<>>, items |-> <<>>,
     neg |-> FALSE, mag |-> <<>>, exp |-> 0, sp |-> ""]

\* q, or q + 1 when the binary digits cut off q are more than half of its
\* last digit, or are half of it and q is odd
RoundUp(q, half, sticky) ==
    IF half /\ (sticky \/ Digit(q, 1) % 2 = 1) THEN NatAdd(q, <<1>>) ELSE q

\* m * 2^-sh rounded to the nearest natural number, ties to even, sh > 0
NatRound(m, sh) ==
    RoundUp(NatShr(m, sh), NatBit(m, sh - 1) = 1, ~NatLowZero(m, sh - 1))

\* the float (-1)^n * r * 2^low, an infinity at or beyond 2^1024
FloatOrInf(n, r, low) ==
    IF NatBitLen(r) + low > 1024 THEN Inf(n) ELSE Float(n, r, low)

\* the position of the lowest binary digit a double keeps of m * 2^e
LowBit(m, e) == Max(NatBitLen(m) + e - 53, 0 - 1074)

RoundAt(n, m, e, low) ==
    FloatOrInf(n, IF low <= e THEN m ELSE NatRound(m, low - e),
               IF low <= e THEN e ELSE low)

\* the double nearest to (-1)^n * m * 2^e, or an infinity beyond the range
RoundFloat(n, m, e) == RoundAt(n, m, e, LowBit(m, e))

\* OverflowError: int too large to convert to float
Overflowing(f) == IF f.sp = "inf" THEN Raised ELSE f

\* float(v) for a number v
ToFloat(v) ==
    IF IsFloat(v) THEN v ELSE Overflowing(RoundFloat(v.neg, v.mag, 0))

\* the exponent at which a and b are added
AlignExp(a, b) ==
    IF Len(a.mag) = 0 THEN b.exp
    ELSE IF Len(b.mag) = 0 THEN a.exp
    ELSE Min(a.exp, b.exp)

\* (-1)^an * ma + (-1)^bn * mb for an # bn, c the comparison of ma and mb
SubAligned(an, ma, bn, mb, e, c) ==
    IF c = 0 THEN [neg |-> FALSE, mag |-> <<>>, exp |-> e]
    ELSE IF c > 0 THEN [neg |-> an, mag |-> NatSub(ma, mb), exp |-> e]
    ELSE [neg |-> bn, mag |-> NatSub(mb, ma), exp |-> e]

\* ((-1)^an * ma + (-1)^bn * mb) * 2^e
AddAligned(an, ma, bn, mb, e) ==
    IF an = bn THEN [neg |-> an, mag |-> NatAdd(ma, mb), exp |-> e]
    ELSE SubAligned(an, ma, bn, mb, e, NatCmp(ma, mb))

ExactAddAt(a, b, e) ==
    AddAligned(a.neg, NatShl(a.mag, a.exp - e),
               b.neg, NatShl(b.mag, b.exp - e), e)

\* the exact a + b of two finite numbers, as [neg, mag, exp]
ExactAdd(a, b) == ExactAddAt(a, b, AlignExp(a, b))

\* the non-zero a lies more than 64 binary digits below the lowest digit of
\* the non-zero b
FarBelow(a, b) ==
    /\ Len(a.mag) > 0 /\ Len(b.mag) > 0
    /\ NatBitLen(a.mag) + a.exp < b.exp - 64

\* for a far below b: a number between b and its neighbour double on the
\* side of a, which rounds as a + b does
Near(b, a) ==
    [neg |-> b.neg,
     mag |-> IF a.neg = b.neg THEN NatAdd(NatShl(b.mag, 64), <<1>>)
             ELSE NatSub(NatShl(b.mag, 64), <<1>>),
     exp |-> b.exp - 64]

RoundExact(x) == RoundFloat(x.neg, x.mag, x.exp)

\* a + b of two finite floats
FAddFinite(a, b) ==
    RoundExact(IF FarBelow(a, b) THEN Near(b, a)
               ELSE IF FarBelow(b, a) THEN Near(a, b)
               ELSE ExactAdd(a, b))

\* float + float
FAdd(a, b) ==
    IF a = Raised \/ b = Raised THEN Raised
    ELSE IF a.sp = "nan" \/ b.sp = "nan" THEN NaN
    ELSE IF a.sp = "inf" /\ b.sp = "inf"
         THEN (IF a.neg = b.neg THEN a ELSE NaN)
    ELSE IF a.sp = "inf" THEN a
    ELSE IF b.sp = "inf" THEN b
    ELSE FAddFinite(a, b)

\* -a of a float
Negate(a) == IF a.sp = "nan" THEN a ELSE [a EXCEPT !.neg = ~a.neg]

\* float * float
FMul(a, b) ==
    IF a = Raised \/ b = Raised THEN Raised
    ELSE IF a.sp = "nan" \/ b.sp = "nan" THEN NaN
    ELSE IF a.sp = "inf" \/ b.sp = "inf"
         THEN (IF (a.sp = "" /\ Len(a.mag) = 0) \/ (b.sp = "" /\ Len(b.mag) = 0)
               THEN NaN
               ELSE Inf(a.neg # b.neg))
    ELSE RoundFloat(a.neg # b.neg, NatMul(a.mag, b.mag), a.exp + b.exp)

\* abs(a) of a float
FAbs(a) == IF a = Raised THEN Raised ELSE [a EXCEPT !.neg = FALSE]

\* fabs(a) >= fabs(b) of two floats: false when one is a nan; finite
\* floats other than 0 are compared by the position of their highest
\* binary digit and then digit by digit
FAbsGe(a, b) ==
    IF a.sp = "nan" \/ b.sp = "nan" THEN FALSE
    ELSE IF a.sp = "inf" THEN TRUE
    ELSE IF b.sp = "inf" THEN FALSE
    ELSE IF Len(b.mag) = 0 THEN TRUE
    ELSE IF Len(a.mag) = 0 THEN FALSE
    ELSE IF NatBitLen(a.mag) + a.exp # NatBitLen(b.mag) + b.exp
         THEN NatBitLen(a.mag) + a.exp > NatBitLen(b.mag) + b.exp
    ELSE NatCmp(NatShl(a.mag, a.exp - Min(a.exp, b.exp)),
                NatShl(b.mag, b.exp - Min(a.exp, b.exp))) >= 0

\* a / 2.0 of a float
FHalf(a) ==
    IF a = Raised \/ a.sp # "" THEN a ELSE RoundFloat(a.neg, a.mag, a.exp - 1)

\* the int of an int or bool
AsInt(v) == IntOf(v.neg, v.mag)

\* the int of the exact sum x
IntSum(x) == IntOf(x.neg, x.mag)

\* a * b of two numbers: exact for ints, else in floats
PyMul(a, b) ==
    IF a = Raised \/ b = Raised THEN Raised
    ELSE IF ~IsFloat(a) /\ ~IsFloat(b)
         THEN IntOf(a.neg # b.neg, NatMul(a.mag, b.mag))
    ELSE FMul(ToFloat(a), ToFloat(b))

\* a + b of two numbers: exact for ints, else in floats
PyAdd(a, b) ==
    IF a = Raised \/ b = Raised THEN Raised
    ELSE IF ~IsFloat(a) /\ ~IsFloat(b)
         THEN IntSum(ExactAdd(AsInt(a), AsInt(b)))
    ELSE FAdd(ToFloat(a), ToFloat(b))

\* float - float: the difference is the sum with the negated float
FSub(a, b) == IF a = Raised \/ b = Raised THEN Raised ELSE FAdd(a, Negate(b))

\* a - b of two numbers: exact for ints; else both operands are converted
\* to float first and the floats subtracted (so -0.0 - 0 is -0.0)
PySub(a, b) ==
    IF a = Raised \/ b = Raised THEN Raised
    ELSE IF ~IsFloat(a) /\ ~IsFloat(b)
         THEN IntSum(ExactAdd(AsInt(a), IntOf(~b.neg, b.mag)))
    ELSE FSub(ToFloat(a), ToFloat(b))

(***************************************************************************)
(* Constants of the mass model.                                            *)
(***************************************************************************)
\* 0.00012, the double 0x1.f75104d551d69p-14
PX2_TO_KG == Float(FALSE, <<7529, 6826, 21569, 251>>, 0 - 66)

\* 1.0
LOW_MULT == Float(FALSE, <<1>>, 0)

\* 1.5
MOD_MULT == Float(FALSE, <<3>>, 0 - 1)

\* 2.0
HIGH_MULT == Float(FALSE, <<1>>, 1)

(***************************************************************************)
(* iter_prediction_objects.  A run of the generator is the record          *)
(* [err, out]: out is what it yielded, err whether it then raised.         *)
(***************************************************************************)
Ok(seq) == [err |-> FALSE, out |-> seq]

Raise(seq) == [err |-> TRUE, out |-> seq]

\* run b after a: nothing of b happens once a has raised
Then(a, b) ==
    IF a.err THEN a ELSE [err |-> b.err, out |-> a.out \o b.out]

\* "yield from v": iterates a list, the characters of a str, the keys of a
\* dict; None and numbers are not iterable (TypeError)
YieldFrom(v) ==
    CASE v.t = "list" -> Ok(Elems(v))
      [] v.t = "str" -> Ok(Chars(v.s))
      [] v.t = "dict" -> Ok(Keys(v))
      [] OTHER -> Raise(<<>>)

\* the loop over obj["outputs"], from element i on
RECURSIVE OutputsLoop(_, _)
OutputsLoop(outs, i) ==
    IF i > Len(outs) THEN Ok(<<>>)
    ELSE LET out == outs[i]
             here == IF IsDict(out) /\ Has(out, K_predictions)
                     THEN YieldFrom(Get(out, K_predictions))
                     ELSE Ok(<<>>)
         IN  Then(here, OutputsLoop(outs, i + 1))

RECURSIVE iter_prediction_objects(_)
RECURSIVE ValuesLoop(_, _)
RECURSIVE ItemsLoop(_, _)

\* the fallback loop over obj.values(), from value i on
ValuesLoop(vals, i) ==
    IF i > Len(vals) THEN Ok(<<>>)
    ELSE LET v == vals[i]
             here == IF IsDict(v) \/ IsList(v)
                     THEN iter_prediction_objects(v)
                     ELSE Ok(<<>>)
         IN  Then(here, ValuesLoop(vals, i + 1))

\* the loop over the items of a list, from item i on
ItemsLoop(its, i) ==
    IF i > Len(its) THEN Ok(<<>>)
    ELSE Then(iter_prediction_objects(its[i]), ItemsLoop(its, i + 1))

\* variants of iter_prediction_objects that the properties below must reject
iter_prediction_objects_outputs_first(o) ==
    IF IsDict(o)
    THEN IF Has(o, K_outputs) /\ IsList(Get(o, K_outputs))
         THEN OutputsLoop(Elems(Get(o, K_outputs)), 1)
         ELSE IF Has(o, K_predictions) /\ IsList(Get(o, K_predictions))
              THEN YieldFrom(Get(o, K_predictions))
              ELSE ValuesLoop(Elems(o), 1)
    ELSE IF IsList(o)
         THEN ItemsLoop(Elems(o), 1)
         ELSE Ok(<<>>)

RECURSIVE ValuesLoopDictsOnly(_, _)
ValuesLoopDictsOnly(vals, i) ==
    IF i > Len(vals) THEN Ok(<<>>)
    ELSE LET v == vals[i]
             here == IF IsDict(v) THEN iter_prediction_objects(v) ELSE Ok(<<>>)
         IN  Then(here, ValuesLoopDictsOnly(vals, i + 1))

iter_prediction_objects_dicts_only(o) ==
    IF IsDict(o)
    THEN IF Has(o, K_predictions) /\ IsList(Get(o, K_predictions))
         THEN YieldFrom(Get(o, K_predictions))
         ELSE IF Has(o, K_outputs) /\ IsList(Get(o, K_outputs))
              THEN OutputsLoop(Elems(Get(o, K_outputs)), 1)
              ELSE ValuesLoopDictsOnly(Elems(o), 1)
    ELSE IF IsList(o)
         THEN ItemsLoop(Elems(o), 1)
         ELSE Ok(<<>>)

iter_prediction_objects(o) ==
    IF IsDict(o)
    THEN IF Has(o, K_predictions) /\ IsList(Get(o, K_predictions))
         THEN YieldFrom(Get(o, K_predictions))
         ELSE IF Has(o, K_outputs) /\ IsList(Get(o, K_outputs))
              THEN OutputsLoop(Elems(Get(o, K_outputs)), 1)
              ELSE ValuesLoop(Elems(o), 1)
    ELSE IF IsList(o)
         THEN ItemsLoop(Elems(o), 1)
         ELSE Ok(<<>>)

(***************************************************************************)
(* The documents the extractor is run on.                                  *)
(***************************************************************************)
P1 == Dict(<<KV(K_detection_id, Str(K_a))>>)

P2 == Dict(<<KV(K_detection_id, Str(K_b))>>)

PredElems == {P1, P2, IntV(5)}

PredLists == {List(sq) : sq \in SeqsUpTo(PredElems, MaxPreds)}

NonSeqs == {None, IntV(5), Str(K_ab), Dict(<<KV(K_k, IntV(5))>>)}

W1 == Dict(<<KV(K_predictions, List(<<P1>>))>>)

W2 == Dict(<<KV(K_predictions, List(<<P2, P1>>))>>)

OutElems ==
    {Dict(<<KV(K_predictions, pv)>>) :
        pv \in {List(<<>>), List(<<P1>>), List(<<P2, P1>>)} \cup NonSeqs}
    \cup {Dict(<<KV(K_image, Str(K_i)), KV(K_predictions, List(<<P2>>))>>),
          Dict(<<KV(K_foo, W1)>>), Dict(<<>>), IntV(5), List(<<W1>>)}

OutVals ==
    {List(sq) : sq \in SeqsUpTo(OutElems, MaxOuts)} \cup {None, W1}

Rule1Docs ==
    {Dict(<<KV(K_predictions, pl)>>) : pl \in PredLists}
    \cup {Dict(<<KV(K_predictions, pl), KV(K_outputs, List(<<W2>>))>>) : pl \in PredLists}
    \cup {Dict(<<KV(K_foo, W2), KV(K_predictions, pl)>>) : pl \in PredLists}

Rule2Docs ==
    {Dict(<<KV(K_outputs, ov)>>) : ov \in OutVals}
    \cup {Dict(<<KV(K_predictions, ns), KV(K_outputs, ov)>>) :
             ns \in {None, Str(K_ab)}, ov \in {List(<<W1>>), List(<<W2, IntV(5)>>), List(<<>>)}}
    \cup {Dict(<<KV(K_foo, W2), KV(K_outputs, ov)>>) :
             ov \in {List(<<W1>>), List(<<Dict(<<KV(K_foo, W1)>>)>>)}}

Wrappers ==
    {W1, W2, Dict(<<>>), List(<<>>), IntV(5), None, Str(K_ab), P1,
     Dict(<<KV(K_predictions, None)>>),
     Dict(<<KV(K_outputs, List(<<W2>>))>>),
     Dict(<<KV(K_outputs, IntV(5))>>),
     Dict(<<KV(K_outputs, List(<<Dict(<<KV(K_predictions, IntV(5))>>)>>))>>),
     Dict(<<KV(K_foo, W1)>>),
     List(<<W1, W2>>)}

FallbackDocs ==
    {Dict(<<KV(K_foo, a)>>) : a \in Wrappers}
    \cup {Dict(<<KV(K_foo, a), KV(K_b, b)>>) : a \in Wrappers, b \in Wrappers}
    \cup {List(sq) : sq \in SeqsUpTo(Wrappers, 2)}
    \cup {Dict(<<KV(K_a, List(<<a, b>>))>>) : a \in Wrappers, b \in Wrappers}

ExtractInputs == Rule1Docs \cup Rule2Docs \cup FallbackDocs \cup Wrappers

NoResult == Ok(<<>>)

InitExtract ==
    /\ pc = "start"
    /\ obj \in ExtractInputs
    /\ result = NoResult
    /\ pred = None /\ row = None /\ points = <<>> /\ area = None
    /\ input = None /\ write_totals_row = TRUE /\ data = None
    /\ rows = <<>> /\ file = <<>> /\ idx = 0

\* list(iter_prediction_objects(obj))
Extract ==
    /\ pc = "start"
    /\ result' = iter_prediction_objects(obj)
    /\ pc' = "done"
    /\ UNCHANGED <<obj, pred, row, points, area, input, write_totals_row,
                   data, rows, file, idx>>

NextExtract == Extract

SpecExtract == InitExtract /\ [][NextExtract]_vars

(***************************************************************************)
(* shoelace_area_px2.  The result is the area, or Raised when an entry of  *)
(* points cannot be indexed by "x"/"y" (TypeError, KeyError), when a       *)
(* coordinate is not a number (TypeError) or when an int is too large for  *)
(* a float (OverflowError).                                                *)
(***************************************************************************)
\* 0.0
Zero == Float(FALSE, <<>>, 0)

\* points[i]["x"] and points[i]["y"] exist: a list, a str, a number or None
\* cannot be indexed by a str, and a dict raises KeyError on a missing key
HasXY(p) == IsDict(p) /\ Has(p, K_x) /\ Has(p, K_y)

\* points[i]["x"] and points[i]["y"] exist and can be multiplied and
\* subtracted: with a str, a list, a dict or None among the four
\* coordinates either a product or the difference of the products raises
\* TypeError
GoodPoint(p) ==
    /\ HasXY(p)
    /\ IsNumber(Get(p, K_x)) /\ IsNumber(Get(p, K_y))

\* x1 * y2 - y1 * x2
Cross(p1, p2) ==
    PySub(PyMul(Get(p1, K_x), Get(p2, K_y)),
          PyMul(Get(p1, K_y), Get(p2, K_x)))

RECURSIVE ShoelaceLoop(_, _, _)
\* the loop "for i in range(n)", from i on (i counts from 1), s so far
ShoelaceLoop(pts, i, s) ==
    IF i > Len(pts) \/ s = Raised THEN s
    ELSE IF GoodPoint(pts[i]) /\ GoodPoint(pts[(i % Len(pts)) + 1])
         THEN ShoelaceLoop(pts, i + 1,
                           PyAdd(s, Cross(pts[i], pts[(i % Len(pts)) + 1])))
         ELSE Raised

\* variants of shoelace_area_px2 that the properties below must reject
shoelace_area_px2_lt2(pts) ==
    IF Len(pts) < 2 THEN Zero
    ELSE FHalf(FAbs(ShoelaceLoop(pts, 1, Zero)))

shoelace_area_px2_no_abs(pts) ==
    IF Len(pts) < 3 THEN Zero
    ELSE FHalf(ShoelaceLoop(pts, 1, Zero))

shoelace_area_px2(pts) ==
    IF Len(pts) < 3 THEN Zero
    ELSE FHalf(FAbs(ShoelaceLoop(pts, 1, Zero)))

(***************************************************************************)
(* prediction_to_row.  The result is the dict returned, or Raised when     *)
(* pred has no get (AttributeError) or the area raises.                    *)
(***************************************************************************)
\* lines 64-78, for the pts of line 60, the area of line 61 and the
\* surface_kg of line 62
RowDict(p, pts, area_px2, surface_kg) ==
    Dict(<<KV(K_detection_id, DictGet(p, K_detection_id)),
           KV(K_class, DictGet(p, K_class)),
           KV(K_class_id, DictGet(p, K_class_id)),
           KV(K_confidence, DictGet(p, K_confidence)),
           KV(K_bbox_x, DictGet(p, K_x)),
           KV(K_bbox_y, DictGet(p, K_y)),
           KV(K_bbox_width, DictGet(p, K_width)),
           KV(K_bbox_height, DictGet(p, K_height)),
           KV(K_num_points, IF IsList(pts) THEN IntV(Len(pts.items))
                            ELSE IntV(0)),
           KV(K_area_px2, area_px2),
           KV(K_mass_low_kg, FMul(surface_kg, LOW_MULT)),
           KV(K_mass_mod_kg, FMul(surface_kg, MOD_MULT)),
           KV(K_mass_high_kg, FMul(surface_kg, HIGH_MULT))>>)

\* lines 62-78, for the pts of line 60 and the area of line 61
RowOfArea(p, pts, area_px2) ==
    IF area_px2 = Raised THEN Raised
    ELSE RowDict(p, pts, area_px2, FMul(area_px2, PX2_TO_KG))

\* lines 61-78, for the pts of line 60
RowOfPoints(p, pts) ==
    RowOfArea(p, pts, IF IsList(pts) THEN shoelace_area_px2(Elems(pts))
                      ELSE Zero)

prediction_to_row(p) ==
    IF ~IsDict(p) THEN Raised
    ELSE RowOfPoints(p, IF Has(p, K_points) THEN Get(p, K_points)
                        ELSE List(<<>>))

(***************************************************************************)
(* The detections prediction_to_row is run on.                             *)
(***************************************************************************)
Pt(x, y) == Dict(<<KV(K_x, x), KV(K_y, y)>>)

\* 0.1, the double 0x1.999999999999ap-4
Tenth == Float(FALSE, <<19661, 6553, 13107, 102>>, 0 - 55)

PtEntries ==
    {Pt(IntV(0), IntV(0)), Pt(IntV(2), IntV(0)), Pt(IntV(2), IntV(3)),
     Pt(Tenth, FloatV(5)),
     Dict(<<>>), Dict(<<KV(K_x, IntV(1))>>), Pt(Str(K_ab), IntV(1))}

PointsVals ==
    {List(sq) : sq \in SeqsUpTo(PtEntries, MaxPts)}
    \cup {None, Str(K_ab), IntV(7), Pt(IntV(1), IntV(1)),
          List(<<IntV(1), IntV(2), IntV(3)>>),
          List(<<Pt(None, IntV(1)), Pt(IntV(1), IntV(1)), Pt(IntV(0), IntV(1))>>)}

FullFields ==
    <<KV(K_detection_id, Str(K_a)), KV(K_class, Str(K_net)),
      KV(K_class_id, IntV(1)), KV(K_confidence, Float(FALSE, <<3>>, 0 - 2)),
      KV(K_x, IntV(10)), KV(K_y, IntV(11)),
      KV(K_width, IntV(20)), KV(K_height, IntV(21))>>

RowInputs ==
    {Dict(f \o <<KV(K_points, pv)>>) : f \in {<<>>, FullFields}, pv \in PointsVals}
    \cup {Dict(<<>>), Dict(FullFields), IntV(5), Str(K_ab), None, List(<<>>)}

InitRow ==
    /\ pc = "start"
    /\ pred \in RowInputs
    /\ row = None
    /\ obj = None /\ result = NoResult /\ points = <<>> /\ area = None
    /\ input = None /\ write_totals_row = TRUE /\ data = None
    /\ rows = <<>> /\ file = <<>> /\ idx = 0

\* prediction_to_row(pred)
ToRow ==
    /\ pc = "start"
    /\ row' = prediction_to_row(pred)
    /\ pc' = "done"
    /\ UNCHANGED <<obj, result, pred, points, area, input, write_totals_row,
                   data, rows, file, idx>>

NextRow == ToRow

SpecRow == InitRow /\ [][NextRow]_vars

(***************************************************************************)
(* The vertex sequences shoelace_area_px2 is run on: pixel coordinates,    *)
(* among them the int 2^53 and a vertex with float coordinates.            *)
(***************************************************************************)
Vertices ==
    {Pt(x, y) : x \in {IntV(0), IntV(1), IntPow2(53)}, y \in {IntV(0), IntV(1)}}
    \cup {Pt(Tenth, Float(FALSE, <<3>>, 0 - 1))}

InitArea ==
    /\ pc = "start"
    /\ points \in SeqsUpTo(Vertices, MaxPts)
    /\ area = None
    /\ obj = None /\ result = NoResult /\ pred = None /\ row = None
    /\ input = None /\ write_totals_row = TRUE /\ data = None
    /\ rows = <<>> /\ file = <<>> /\ idx = 0

\* shoelace_area_px2(points)
ComputeArea ==
    /\ pc = "start"
    /\ area' = shoelace_area_px2(points)
    /\ pc' = "done"
    /\ UNCHANGED <<obj, result, pred, row, points, input, write_totals_row,
                   data, rows, file, idx>>

NextArea == ComputeArea

SpecArea == InitArea /\ [][NextArea]_vars

(***************************************************************************)
(* json_predictions_to_csv.  The output file is [exists, writable, lines]; *)
(* a line is the sequence of its 13 cells.  The input file is [ok, doc]:   *)
(* ok is whether read_text and json.loads succeed, doc the parsed value.   *)
(* The output is opened in the encoding of the locale; the texts of the    *)
(* model are ASCII but for the surrogate, which no encoding can write.     *)
(***************************************************************************)
fieldnames ==
    <<K_detection_id, K_class, K_class_id, K_confidence, K_bbox_x, K_bbox_y,
      K_bbox_width, K_bbox_height, K_num_points, K_area_px2, K_mass_low_kg,
      K_mass_mod_kg, K_mass_high_kg>>

\* a cell is the value whose text the csv writer writes: None is written
\* as the empty text, any other value v as str(v)
CsvCell(v) == IF v = None THEN Str(<<>>) ELSE v

\* DictWriter.writeheader
HeaderLine == [i \in 1..Len(fieldnames) |-> Str(fieldnames[i])]

\* DictWriter.writerow of a row: the cell of a field the row lacks is empty
RowLine(r) ==
    [i \in 1..Len(fieldnames) |->
        IF Has(r, fieldnames[i]) THEN CsvCell(Get(r, fieldnames[i]))
        ELSE Str(<<>>)]

\* the code point U+D800 without a partner
Surrogate == "\\ud800"

\* whether the text of the cell c can be encoded for the file: the text of
\* a str is the str itself, and the text of any other value (str(v), in
\* which an inner str is written by its repr) has no surrogate
Encodable(c) == c.t = "str" => \A j \in 1..Len(c.s) : c.s[j] # Surrogate

\* whether the line can be written
LineEncodable(line) == \A i \in 1..Len(line) : Encodable(line[i])

\* one row of w.writerows: the line goes to the file, or the write raises
\* UnicodeEncodeError and the file is closed with the lines before it
WriteLine(line) ==
    IF LineEncodable(line)
    THEN file' = [file EXCEPT !.lines = Append(@, line)]
         /\ idx' = idx + 1 /\ pc' = pc
    ELSE file' = file /\ idx' = idx /\ pc' = "failed_write"

RECURSIVE SumLoop(_, _, _, _)
\* sum(r[f] for r in rows) on CPython up to 3.11, from row i on, acc so
\* far: sum starts from the int 0 and adds the values one by one, left to
\* right, every float addition rounded
SumLoop(rs, f, i, acc) ==
    IF i > Len(rs) THEN acc
    ELSE SumLoop(rs, f, i + 1, PyAdd(acc, Get(rs[i], f)))

RECURSIVE CompensatedLoop(_, _, _, _, _)
RECURSIVE CompensatedStep(_, _, _, _, _, _)
\* sum(r[f] for r in rows) on CPython from 3.12, for floats, from row i on:
\* acc is the rounded sum so far and c the sum of the rounding errors
\* (Neumaier), which is added after the last row when it is finite and
\* not 0
CompensatedLoop(rs, f, i, acc, c) ==
    IF i > Len(rs)
    THEN (IF c.sp = "" /\ Len(c.mag) > 0 THEN FAdd(acc, c) ELSE acc)
    ELSE CompensatedStep(rs, f, i, acc, c, Get(rs[i], f))

\* one float x of the compensated sum: the rounding error of acc + x is
\* taken from the larger of acc and x
CompensatedStep(rs, f, i, acc, c, x) ==
    CompensatedLoop(rs, f, i + 1, FAdd(acc, x),
        FAdd(c, IF FAbsGe(acc, x) THEN FAdd(FSub(acc, FAdd(acc, x)), x)
                ELSE FAdd(FSub(x, FAdd(acc, x)), acc)))

\* sum(r[f] for r in rows), line 115-118; the rows hold floats in these
\* fields.  compensated is the build: CPython from 3.12 adds the first
\* float to the int 0 and sums the others with compensation
Sum(rs, f, compensated) ==
    IF compensated /\ Len(rs) > 0
    THEN CompensatedLoop(rs, f, 2, PyAdd(IntV(0), Get(rs[1], f)), Zero)
    ELSE SumLoop(rs, f, 1, IntV(0))

\* a totals row whose area column sums the wrong field
TotalsRow_area_slip(rs, compensated) ==
    Dict(<<KV(K_detection_id, Str(K_TOTAL)),
           KV(K_class, Str(<<>>)), KV(K_class_id, Str(<<>>)),
           KV(K_confidence, Str(<<>>)),
           KV(K_bbox_x, Str(<<>>)), KV(K_bbox_y, Str(<<>>)),
           KV(K_bbox_width, Str(<<>>)), KV(K_bbox_height, Str(<<>>)),
           KV(K_num_points, Str(<<>>)),
           KV(K_area_px2, Sum(rs, K_mass_low_kg, compensated)),
           KV(K_mass_low_kg, Sum(rs, K_mass_low_kg, compensated)),
           KV(K_mass_mod_kg, Sum(rs, K_mass_mod_kg, compensated)),
           KV(K_mass_high_kg, Sum(rs, K_mass_high_kg, compensated))>>)

\* the totals row, lines 115-134
TotalsRow(rs, compensated) ==
    Dict(<<KV(K_detection_id, Str(K_TOTAL)),
           KV(K_class, Str(<<>>)), KV(K_class_id, Str(<<>>)),
           KV(K_confidence, Str(<<>>)),
           KV(K_bbox_x, Str(<<>>)), KV(K_bbox_y, Str(<<>>)),
           KV(K_bbox_width, Str(<<>>)), KV(K_bbox_height, Str(<<>>)),
           KV(K_num_points, Str(<<>>)),
           KV(K_area_px2, Sum(rs, K_area_px2, compensated)),
           KV(K_mass_low_kg, Sum(rs, K_mass_low_kg, compensated)),
           KV(K_mass_mod_kg, Sum(rs, K_mass_mod_kg, compensated)),
           KV(K_mass_high_kg, Sum(rs, K_mass_high_kg, compensated))>>)

OldLines == <<<<Str(K_foo)>>>>

D_sq ==
    Dict(FullFields \o
         <<KV(K_points, List(<<Pt(IntV(0), IntV(0)), Pt(IntV(10), IntV(0)),
                               Pt(IntV(10), IntV(10)), Pt(IntV(0), IntV(10))>>))>>)

D_tri ==
    Dict(<<KV(K_detection_id, Str(K_b)),
           KV(K_points, List(<<Pt(IntV(0), IntV(0)), Pt(IntV(4), IntV(0)),
                               Pt(IntV(0), IntV(3))>>))>>)

\* a triangle of area 2^53
D_big ==
    Dict(<<KV(K_detection_id, Str(K_k)),
           KV(K_points, List(<<Pt(IntV(0), IntV(0)), Pt(IntPow2(27), IntV(0)),
                               Pt(IntV(0), IntPow2(27))>>))>>)

\* a triangle of area 1
D_one ==
    Dict(<<KV(K_class, Str(K_net)),
           KV(K_points, List(<<Pt(IntV(0), IntV(0)), Pt(IntV(2), IntV(0)),
                               Pt(IntV(0), IntV(1))>>))>>)

\* a detection whose detection_id is a text that cannot be encoded
D_sur ==
    Dict(<<KV(K_detection_id, Str(<<Surrogate>>)), KV(K_points, List(<<>>))>>)

\* a detection with that text inside a list: the cell is the repr
D_esc ==
    Dict(<<KV(K_detection_id, Str(K_a)),
           KV(K_class, List(<<Str(<<Surrogate>>)>>))>>)

D_bad == Dict(<<KV(K_points, List(<<Dict(<<>>), Dict(<<>>), Dict(<<>>)>>))>>)

GoodDets == {D_sq, D_tri, D_one}

CsvDets == GoodDets \cup {D_big, D_sur, D_esc, D_bad, IntV(5)}

Image(d) == Dict(<<KV(K_image, Str(K_i)), KV(K_predictions, List(<<d>>))>>)

CsvDocs ==
    {Dict(<<KV(K_predictions, List(sq))>>) : sq \in SeqsUpTo({D_big, D_one, D_sur}, MaxRows)}
    \cup {Dict(<<KV(K_predictions, List(<<d>>))>>) : d \in CsvDets}
    \cup {Dict(<<KV(K_predictions, List(<<d1, d2>>))>>) :
             d1 \in CsvDets, d2 \in CsvDets}
    \cup {List(<<Image(d1), Image(d2)>>) : d1 \in GoodDets, d2 \in GoodDets}
    \cup {Dict(<<KV(K_outputs, List(<<Dict(<<KV(K_predictions, List(<<d1, d2>>))>>)>>))>>) :
             d1 \in GoodDets, d2 \in GoodDets}
    \cup {Dict(<<KV(K_outputs, List(<<Dict(<<KV(K_predictions, IntV(5))>>)>>))>>),
          Dict(<<>>), IntV(5)}

Init ==
    /\ pc = "start"
    /\ input \in {[ok |-> TRUE, doc |-> d] : d \in CsvDocs}
                \cup {[ok |-> FALSE, doc |-> None]}
    /\ write_totals_row \in BOOLEAN
    /\ file \in {[exists |-> e, writable |-> w,
                 lines |-> IF e THEN OldLines ELSE <<>>] :
                    e \in BOOLEAN, w \in BOOLEAN}
    /\ data = None /\ rows = <<>> /\ idx = 0
    /\ obj = None /\ result = NoResult /\ pred = None /\ row = None
    /\ points = <<>> /\ area = None

\* a reader that opens the output for writing before the input is read
ReadJson_truncates ==
    /\ pc = "start"
    /\ IF input.ok
       THEN data' = input.doc /\ pc' = "rows"
       ELSE data' = data /\ pc' = "failed_read"
    /\ file' = [file EXCEPT !.exists = TRUE, !.lines = <<>>]
    /\ UNCHANGED <<obj, result, pred, row, points, area, input,
                   write_totals_row, rows, idx>>

\* line 89: data = json.loads(input_path.read_text())
ReadJson ==
    /\ pc = "start"
    /\ IF input.ok
       THEN data' = input.doc /\ pc' = "rows"
       ELSE data' = data /\ pc' = "failed_read"
    /\ UNCHANGED <<obj, result, pred, row, points, area, input,
                   write_totals_row, rows, file, idx>>

\* line 91, for the detections extracted and the row of each: the list is
\* assigned when no call has raised
StoreRows(err, rr) ==
    IF err \/ \E i \in 1..Len(rr) : rr[i] = Raised
    THEN rows' = rows /\ pc' = "failed_rows"
    ELSE rows' = rr /\ pc' = "open"

\* line 91, for the run r of the extractor
RowsOf(r) == StoreRows(r.err, [i \in 1..Len(r.out) |-> prediction_to_row(r.out[i])])

\* line 91: rows = [prediction_to_row(p) for p in iter_prediction_objects(data)]
BuildRows ==
    /\ pc = "rows"
    /\ RowsOf(iter_prediction_objects(data))
    /\ UNCHANGED <<obj, result, pred, row, points, area, input,
                   write_totals_row, data, file, idx>>

\* line 109: output_path.open("w") creates or truncates the file
OpenOutput ==
    /\ pc = "open"
    /\ IF file.writable
       THEN file' = [file EXCEPT !.exists = TRUE, !.lines = <<>>] /\ pc' = "header"
       ELSE file' = file /\ pc' = "failed_open"
    /\ UNCHANGED <<obj, result, pred, row, points, area, input,
                   write_totals_row, data, rows, idx>>

\* line 111: w.writeheader()
WriteHeader ==
    /\ pc = "header"
    /\ file' = [file EXCEPT !.lines = Append(@, HeaderLine)]
    /\ idx' = 0
    /\ pc' = "writerows"
    /\ UNCHANGED <<obj, result, pred, row, points, area, input,
                   write_totals_row, data, rows>>

\* a writer that takes the rows from the end
WriteRow_backwards ==
    /\ pc = "writerows"
    /\ idx < Len(rows)
    /\ WriteLine(RowLine(rows[Len(rows) - idx]))
    /\ UNCHANGED <<obj, result, pred, row, points, area, input,
                   write_totals_row, data, rows>>

\* line 112: w.writerows(rows), one row; a row that cannot be encoded
\* ends the call
WriteRow ==
    /\ pc = "writerows"
    /\ idx < Len(rows)
    /\ WriteLine(RowLine(rows[idx + 1]))
    /\ UNCHANGED <<obj, result, pred, row, points, area, input,
                   write_totals_row, data, rows>>

\* lines 114-134: the totals row, after the last data row; the sums are
\* those of the build the program runs on
WriteTotals ==
    /\ pc = "writerows"
    /\ idx = Len(rows)
    /\ write_totals_row
    /\ \E compensated \in BOOLEAN :
          file' = [file EXCEPT !.lines = Append(@, RowLine(TotalsRow(rows, compensated)))]
    /\ pc' = "done"
    /\ UNCHANGED <<obj, result, pred, row, points, area, input,
                   write_totals_row, data, rows, idx>>

\* line 114 with write_totals_row false: the file is closed as it is
SkipTotals ==
    /\ pc = "writerows"
    /\ idx = Len(rows)
    /\ ~write_totals_row
    /\ pc' = "done"
    /\ UNCHANGED <<obj, result, pred, row, points, area, input,
                   write_totals_row, data, rows, file, idx>>

Next ==
    \/ ReadJson
    \/ BuildRows
    \/ OpenOutput
    \/ WriteHeader
    \/ WriteRow
    \/ WriteTotals
    \/ SkipTotals

Spec == Init /\ [][Next]_vars

(***************************************************************************)
(* Properties of the extractor, under SpecExtract.                         *)
(***************************************************************************)
Rule1(o) ==
    IsDict(o) /\ Has(o, K_predictions) /\ IsList(Get(o, K_predictions))

Rule2(o) ==
    IsDict(o) /\ ~Rule1(o) /\ Has(o, K_outputs) /\ IsList(Get(o, K_outputs))

Fallback(o) == IsDict(o) /\ ~Rule1(o) /\ ~Rule2(o)

\* C1: iter_prediction_objects raises no error, whatever the parsed value,
\* and a shape without recognisable predictions yields nothing.
C1_NeverRaises ==
    pc = "done" =>
        /\ ~result.err
        /\ (~IsDict(obj) /\ ~IsList(obj)) => result.out = <<>>

\* C3: a mapping whose "predictions" is a sequence yields exactly the
\* elements of that sequence, in order, whatever its other keys hold.
C3_Rule1FirstMatch ==
    (pc = "done" /\ Rule1(obj)) =>
        result = Ok(Elems(Get(obj, K_predictions)))

C3_Witness ==
    /\ pc = "done"
    /\ Rule1(obj)
    /\ Has(obj, K_outputs)
    /\ ~result.err
    /\ Len(result.out) = 2

RECURSIVE OutputsPredictions(_, _)
\* the elements of the "predictions" sequences of the elements of outs that
\* are mappings containing "predictions", from element i on
OutputsPredictions(outs, i) ==
    IF i > Len(outs) THEN <<>>
    ELSE (IF IsDict(outs[i]) /\ Has(outs[i], K_predictions)
                /\ IsList(Get(outs[i], K_predictions))
          THEN Elems(Get(outs[i], K_predictions))
          ELSE <<>>) \o OutputsPredictions(outs, i + 1)

\* C4: a mapping without a sequence-valued "predictions" but with a
\* sequence-valued "outputs" yields, in order, the elements of the
\* "predictions" sequence of every "outputs" element that is a mapping
\* containing "predictions", and nothing else.
C4_Rule2 ==
    (pc = "done" /\ Rule2(obj)) =>
        result = Ok(OutputsPredictions(Elems(Get(obj, K_outputs)), 1))

RECURSIVE FlatOut(_, _)
\* what the runs rs[1..n] yielded, one after the other
FlatOut(rs, n) == IF n = 0 THEN <<>> ELSE FlatOut(rs, n - 1) \o rs[n].out

\* the runs rs one after the other: all of them, or up to the first that
\* raises
ConcatRuns(rs) ==
    LET bad == {i \in 1..Len(rs) : rs[i].err}
        last == IF bad = {} THEN Len(rs)
                ELSE CHOOSE i \in bad : \A j \in bad : i <= j
    IN  [err |-> bad # {}, out |-> FlatOut(rs, last)]

\* C5: a mapping matching neither rule yields the concatenation, in key
\* order, of the extractor's results on its mapping and sequence values;
\* a sequence yields the concatenation of the results on its elements;
\* scalars and null yield nothing.  So a list of wrapper objects yields all
\* their predictions in source order, and a nested wrapper is found.
C5_RecursiveFallback ==
    pc = "done" =>
        /\ Fallback(obj) =>
              result = ConcatRuns([i \in 1..Len(obj.items) |->
                          IF IsDict(obj.items[i].v) \/ IsList(obj.items[i].v)
                          THEN iter_prediction_objects(obj.items[i].v)
                          ELSE Ok(<<>>)])
        /\ IsList(obj) =>
              result = ConcatRuns([i \in 1..Len(obj.items) |->
                          iter_prediction_objects(obj.items[i].v)])
        /\ (~IsDict(obj) /\ ~IsList(obj)) => result = Ok(<<>>)
        /\ obj = List(<<W1, W2>>) => result = Ok(<<P1, P2, P1>>)
        /\ obj = Dict(<<KV(K_foo, W1)>>) => result = Ok(<<P1>>)

C5_Witness ==
    /\ pc = "done"
    /\ Fallback(obj)
    /\ Len(obj.items) = 2
    /\ IsList(obj.items[1].v)
    /\ ~result.err
    /\ Len(result.out) = 4

(***************************************************************************)
(* Properties of prediction_to_row, under SpecRow.                         *)
(***************************************************************************)
\* C2: prediction_to_row returns a row and never raises, whatever the
\* detection record and its "points".
C2_RowIsTotal == pc = "done" => row # Raised

\* "points" is absent, not a sequence, or a sequence of fewer than 3 entries
Degenerate(p) ==
    \/ ~Has(p, K_points)
    \/ ~IsList(Get(p, K_points))
    \/ Len(Get(p, K_points).items) < 3

\* C9: a detection whose "points" is absent, not a sequence, or shorter
\* than 3 gets area 0 and masses 0 without error, and num_points is the

\* a number above 0
Positive(v) == IsNumber(v) /\ ~v.neg /\ (Len(v.mag) > 0 \/ v.sp = "inf")

\* C9: a detection whose "points" is absent, not a sequence, or shorter
\* than 3 gets area 0 and masses 0 without error, and num_points is the
\* length of the points sequence (0 when there is none); a positive area
\* needs num_points >= 3.
C9_DegeneratePolygons ==
    (pc = "done" /\ IsDict(pred)) =>
        /\ Degenerate(pred) =>
              /\ row # Raised
              /\ Get(row, K_area_px2) = Zero
              /\ Get(row, K_mass_low_kg) = Zero
              /\ Get(row, K_mass_mod_kg) = Zero
              /\ Get(row, K_mass_high_kg) = Zero
              /\ Get(row, K_num_points) =
                    IF Has(pred, K_points) /\ IsList(Get(pred, K_points))
                    THEN IntV(Len(Get(pred, K_points).items))
                    ELSE IntV(0)
        /\ (row # Raised /\ Positive(Get(row, K_area_px2))) =>
              NatCmp(Get(row, K_num_points).mag, <<3>>) >= 0

C9_Witness ==
    /\ pc = "done"
    /\ IsDict(pred)
    /\ Has(pred, K_points)
    /\ IsList(Get(pred, K_points))
    /\ Len(Get(pred, K_points).items) = 2
    /\ ~GoodPoint(Get(pred, K_points).items[1].v)
    /\ row # Raised
    /\ Get(row, K_num_points) = IntV(2)
    /\ Get(row, K_area_px2) = Zero

(***************************************************************************)
(* Properties of shoelace_area_px2, under SpecArea.                        *)
(***************************************************************************)
\* the sequence started k vertices later
Rotate(sq, k) ==
    [i \in 1..Len(sq) |-> sq[((i - 1 + k) % Len(sq)) + 1]]

Reverse(sq) == [i \in 1..Len(sq) |-> sq[Len(sq) + 1 - i]]

\* the listings of the same polygon: every starting vertex, both windings
Listings(sq) ==
    {Rotate(sq, k) : k \in 0..(Len(sq) - 1)}
    \cup {Rotate(Reverse(sq), k) : k \in 0..(Len(sq) - 1)}

UnitSquare ==
    <<Pt(IntV(0), IntV(0)), Pt(IntV(1), IntV(0)),
      Pt(IntV(1), IntV(1)), Pt(IntV(0), IntV(1))>>

\* C6 as stated: for every vertex sequence of length >= 3 the reversed
\* sequence and every cyclic rotation have the area of the original, and
\* the unit square has area 1 under all its 8 listings.
C6_ListingInvariance ==
    (pc = "done" /\ Len(points) >= 3) =>
        /\ \A l \in Listings(points) : shoelace_area_px2(l) = area
        /\ points \in Listings(UnitSquare) =>
              area = FloatV(1)

\* every coordinate is a JSON integer
IntCoords(pts) ==
    \A i \in 1..Len(pts) :
        /\ GoodPoint(pts[i])
        /\ Get(pts[i], K_x).t = "int" /\ Get(pts[i], K_y).t = "int"

RECURSIVE AbsCrossSum(_, _)
\* the exact sum of |x1 * y2 - y1 * x2| over the edges i..n, for integer
\* coordinates
AbsCrossSum(pts, i) ==
    IF i > Len(pts) THEN <<>>
    ELSE NatAdd(Cross(pts[i], pts[(i % Len(pts)) + 1]).mag,
                AbsCrossSum(pts, i + 1))

\* a natural number below 2^53
Below2p53(m) == NatBitLen(m) <= 53

\* C6 amended: the invariance holds for the integer vertex sequences whose
\* cross products sum, in absolute value, to less than 2^53, where the
\* float accumulation is exact; the unit square has area 1 under all its 8
\* listings.
C6_ExactListingInvariance ==
    (pc = "done" /\ Len(points) >= 3 /\ IntCoords(points)
        /\ Below2p53(AbsCrossSum(points, 1))) =>
        /\ \A l \in Listings(points) : shoelace_area_px2(l) = area
        /\ points \in Listings(UnitSquare) =>
              area = FloatV(1)

C6_Witness ==
    /\ pc = "done"
    /\ points = Rotate(Reverse(UnitSquare), 1)
    /\ Cardinality(Listings(points)) = 8
    /\ area = FloatV(1)

(***************************************************************************)
(* Properties of json_predictions_to_csv, under Spec.                      *)
(***************************************************************************)
\* the value of a finite number: [neg, mag, exp] with mag odd, or zero
Exact(v) ==
    LET f == Float(v.neg, v.mag, v.exp)
    IN  [neg |-> f.neg /\ Len(f.mag) > 0, mag |-> f.mag, exp |-> f.exp]

RECURSIVE ColumnSum(_, _, _, _)
\* the arithmetic sum of column c over the lines from..to
ColumnSum(lines, c, from, to) ==
    IF from > to THEN [neg |-> FALSE, mag |-> <<>>, exp |-> 0]
    ELSE ExactAdd(lines[from][c], ColumnSum(lines, c, from + 1, to))

\* C7 as stated: the totals row holds, for area and the three masses, the
\* arithmetic sum of the column over all data rows, one data row per
\* extracted detection; with no detection the four totals are 0; its
\* detection_id is "TOTAL" and its other fields are blank.
C7_TotalsCorrect ==
    (pc = "done" /\ write_totals_row) =>
        LET n == Len(file.lines)
            tot == file.lines[n]
        IN  /\ n - 2 = Len(iter_prediction_objects(data).out)
            /\ tot[1] = Str(K_TOTAL)
            /\ \A j \in 2..9 : tot[j] = Str(<<>>)
            /\ \A j \in 10..13 :
                  /\ IsNumber(tot[j])
                  /\ Exact(tot[j]) = Exact(ColumnSum(file.lines, j, 2, n - 1))
            /\ n = 2 => \A j \in 10..13 : Exact(tot[j]) = Exact(IntV(0))

\* the arithmetic sum x is a double
IsDouble(x) == Exact(RoundFloat(x.neg, x.mag, x.exp)) = Exact(x)

RECURSIVE FloatColumnSum(_, _, _, _, _)
\* column c over the lines from..to added to acc one line after the other,
\* every sum rounded to the nearest double
FloatColumnSum(lines, c, from, to, acc) ==
    IF from > to THEN acc
    ELSE LET x == ExactAdd(acc, lines[from][c])
         IN  FloatColumnSum(lines, c, from + 1, to,
                            RoundFloat(x.neg, x.mag, x.exp))

RECURSIVE CompensatedColumnSum(_, _, _, _, _, _)
\* column c over the lines from..to added to acc one line after the other,
\* every sum rounded to the nearest double and its rounding error added to
\* err; the errors are added to the sum at the end
CompensatedColumnSum(lines, c, from, to, acc, err) ==
    IF from > to
    THEN (IF err.sp = "" /\ Len(err.mag) > 0 THEN FAdd(acc, err) ELSE acc)
    ELSE LET x == lines[from][c]
             t == FAdd(acc, x)
         IN  CompensatedColumnSum(lines, c, from + 1, to, t,
                 FAdd(err, IF FAbsGe(acc, x) THEN FAdd(FSub(acc, t), x)
                           ELSE FAdd(FSub(x, t), acc)))

\* the sums sum() can give for column c of the data lines 2..to: added up
\* from 0 in row order with every addition rounded (CPython up to 3.11),
\* or with the rounding errors compensated (CPython from 3.12)
SumsOfColumn(lines, c, to) ==
    {FloatColumnSum(lines, c, 2, to, IntV(0))}
    \cup (IF to < 2 THEN {}
          ELSE {CompensatedColumnSum(lines, c, 3, to,
                                     FAdd(FloatV(0), lines[2][c]), FloatV(0))})

\* C7 amended: the totals row holds, for area and the three masses, the
\* sum of the column over all data rows as sum() computes it in double
\* precision from 0 in row order: every addition rounded to the nearest
\* double, or, from CPython 3.12, the rounding errors compensated and
\* added at the end.  Either is the arithmetic sum whenever every partial
\* sum in row order is a double.  There is one data row per extracted
\* detection; with no detection the four totals are 0; its detection_id
\* is "TOTAL" and its other fields are blank.
C7_TotalsAreFloatSums ==
    (pc = "done" /\ write_totals_row) =>
        LET n == Len(file.lines)
            tot == file.lines[n]
        IN  /\ n - 2 = Len(iter_prediction_objects(data).out)
            /\ tot[1] = Str(K_TOTAL)
            /\ \A j \in 2..9 : tot[j] = Str(<<>>)
            /\ \A j \in 10..13 :
                  /\ tot[j] \in SumsOfColumn(file.lines, j, n - 1)
                  /\ (\A k \in 2..(n - 1) : IsDouble(ColumnSum(file.lines, j, 2, k)))
                        => Exact(tot[j]) = Exact(ColumnSum(file.lines, j, 2, n - 1))
            /\ n = 2 => \A j \in 10..13 : tot[j] = IntV(0)

\* three rows of areas 2^53, 1 and 1 whose total is 2^53: the sum with
\* every addition rounded, which is neither the arithmetic nor the
\* compensated sum 2^53 + 2
C7_Witness ==
    /\ pc = "done"
    /\ write_totals_row
    /\ Len(file.lines) = 5
    /\ file.lines[2][10] = Float(FALSE, <<1>>, 53)
    /\ file.lines[3][10] = FloatV(1)
    /\ file.lines[4][10] = FloatV(1)
    /\ file.lines[5][10] = Float(FALSE, <<1>>, 53)
    /\ ~IsDouble(ColumnSum(file.lines, 10, 2, 3))
    /\ Cardinality(SumsOfColumn(file.lines, 10, 4)) = 2

\* the lines 2..m+1 of the file are the rows of the first m detections
RowsInOrder(dets, m) ==
    \A i \in 1..m : file.lines[i + 1] = RowLine(prediction_to_row(dets[i]))

\* the file of a call that is writing its rows: the header and the rows
\* of the first idx detections
Writing(dets) ==
    /\ Len(file.lines) = 1 + idx
    /\ idx <= Len(dets)
    /\ RowsInOrder(dets, idx)

\* the file of a call that has written everything
Complete(dets) ==
    /\ Len(file.lines) = 1 + Len(dets) + (IF write_totals_row THEN 1 ELSE 0)
    /\ RowsInOrder(dets, Len(dets))
    /\ write_totals_row => file.lines[Len(file.lines)][1] = Str(K_TOTAL)

\* C8: the file of a call that returns is the header, then one data row
\* per extracted detection in extraction order, then the totals row
\* exactly when write_totals_row is set; at no moment does a totals row
\* stand before or between the data rows.  A call that ends in
\* w.writerows, on a row that cannot be encoded, has not returned: it
\* leaves the header and the rows before that row, in extraction order,
\* and no totals row.
C8_OutputOrdering ==
    pc \in {"writerows", "done", "failed_write"} =>
        /\ Len(file.lines) >= 1
        /\ file.lines[1] = HeaderLine
        /\ pc = "writerows" => Writing(iter_prediction_objects(data).out)
        /\ pc = "done" => Complete(iter_prediction_objects(data).out)
        /\ pc = "failed_write" =>
              /\ Writing(iter_prediction_objects(data).out)
              /\ idx < Len(rows)
              /\ ~LineEncodable(RowLine(rows[idx + 1]))

C8_Witness ==
    /\ pc = "done"
    /\ ~write_totals_row
    /\ Len(file.lines) = 3
    /\ file.lines[2][1] = Str(K_b)
    /\ file.lines[3][1] = Str(K_a)

\* C10: no step before the rows are computed touches the output file, so a
\* failure of reading, parsing, extraction or a row computation leaves the
\* output as it was.
C10_OutputUntouchedBeforeRows ==
    [][(pc \in {"start", "rows"}) => (file' = file)]_vars

C10_Witness ==
    /\ pc = "failed_rows"
    /\ file.exists
    /\ file.lines = OldLines

====
